---- MODULE Spec2Model ----
(***************************************************************************)
(* Request handling of the agent query API in its two deployment shapes:   *)
(* the standalone Flask server (src/local/main.py) and the AWS Lambda      *)
(* handler (src/src/lambda_function.py).                                   *)
(*                                                                         *)
(* Strings are sequences of atoms.  The atom "Bearer" stands for the six   *)
(* characters B-e-a-r-e-r, " " is one space and "s" is one ordinary          *)
(* character.  None models Python's None, and also an absent header.       *)
(***************************************************************************)
EXTENDS Integers, Sequences, FiniteSets, TLC

VARIABLES variant, secret, phase, API_TOKEN, agent, api_key, auth_token,
          environ, served, failedInits, pending

vars == <<variant, secret, phase, API_TOKEN, agent, api_key, auth_token,
          environ, served, failedInits, pending>>

\* ---------------------------------------------------------------- bounds
MaxHeaderLen == 3
MaxSecretLen == 1
MaxRequests == 2

\* ------------------------------------------------------------ value sets
None == <<"None">>

\* The value of the global `agent` once ReActAgent.from_tools has returned.
Ready == <<"Ready">>

Atoms == {"Bearer", " ", "s"}

RECURSIVE StringsOfLen(_)
StringsOfLen(n) ==
    IF n = 0 THEN {<<>>}
    ELSE {Append(s, a) : s \in StringsOfLen(n - 1), a \in Atoms}

Strings(n) == UNION {StringsOfLen(k) : k \in 0..n}

\* Values the Authorization header can carry (None: the header is absent).
HeaderValues == {None} \cup Strings(MaxHeaderLen)

\* Values the configured secret can have (None: not configured).
SecretValues == {None} \cup (Strings(MaxSecretLen) \ {<<>>})

\* Texts an agent returns, and messages an exception carries.
Texts == {"t1", "t2"}

\* Request bodies: no body, text that is no JSON, {}, {"query": ""},
\* {"query": "q"}.
Bodies == {"absent", "invalid", "empty_object", "query_empty", "query_text"}

\* What agent.query does with a query: returns a plain string, returns an
\* object with the attribute `response` (whose str() is `str`), or raises.
AgentOutcomes ==
    {[kind |-> "string", text |-> t, str |-> t] : t \in Texts}
        \cup [kind : {"object"}, text : Texts, str : Texts]
        \cup {[kind |-> "raise", text |-> t, str |-> t] : t \in Texts}

\* The agent was not asked.
NoOutcome == [kind |-> "none", text |-> "", str |-> ""]

\* Whether a handler's steps include the invocation of agent.query.
Queried(steps) == \E i \in 1..Len(steps) : steps[i] = "query"

\* The outcomes to consider for a handler that takes these steps whatever
\* the agent does: all of them when the agent is asked, else a single one.
OutcomesFor(steps) == IF Queried(steps) THEN AgentOutcomes ELSE {NoOutcome}

\* HTTP methods of the requests.
Methods == {"POST", "OPTIONS", "GET"}

\* A request: its method, the value under each spelling of the header name
\* (at most one of the two is sent), and its body.
Requests ==
    [method : Methods, Authorization : HeaderValues, authorization : {None},
     body : Bodies]
        \cup [method : Methods, Authorization : {None},
              authorization : HeaderValues \ {None}, body : Bodies]

\* ------------------------------------------------------ Python primitives
\* Python truthiness of an optional string: None and "" are falsy.
Truthy(s) == s # None /\ s # <<>>

\* str.startswith('Bearer ')
StartsWithBearer(s) == Len(s) >= 2 /\ s[1] = "Bearer" /\ s[2] = " "

\* str.split(' '): cut at every single space, empty pieces kept.
RECURSIVE SplitSpace(_)
SplitSpace(s) ==
    IF \A i \in 1..Len(s) : s[i] # " " THEN <<s>>
    ELSE LET i == CHOOSE k \in 1..Len(s) :
                      s[k] = " " /\ \A j \in 1..(k - 1) : s[j] # " "
         IN  <<SubSeq(s, 1, i - 1)>> \o SplitSpace(SubSeq(s, i + 1, Len(s)))

\* str.split(): cut at runs of whitespace, no empty pieces.
SplitWhitespace(s) == SelectSeq(SplitSpace(s), LAMBDA p : p # <<>>)

\* ------------------------------------------------------------- responses
\* A response: the HTTP status, the JSON object of the body (a record; the
\* empty text body of the preflight is [raw |-> ""]), the CORS headers
\* ("preflight": Allow-Origin, Allow-Methods and Allow-Headers; "origin":
\* Allow-Origin alone; "none"), and the exception that left the handler
\* ("none" when the handler returned).
Response(status, body, cors) ==
    [status |-> status, body |-> body, cors |-> cors, exc |-> "none"]

\* The handler did not return: the exception reached the transport layer.
Propagated(exc) ==
    [status |-> 0, body |-> [raw |-> ""], cors |-> "none", exc |-> exc]

\* What a handler did: its response and the steps it took, in order.
\* Steps: "bootstrap" (initialize_agent called), "construct" (construction of
\* the agent attempted), "auth_ok", "auth_reject", "parse" (request body
\* parsed), "query" (agent.query invoked).
Handling(resp, steps) == [resp |-> resp, steps |-> steps]

\* ------------------------------------------- standalone server (main.py)
\* main.py lines 25-30: the token the decorator extracts from the header.
LocalToken(auth_header) ==
    IF Truthy(auth_header) /\ StartsWithBearer(auth_header)
    THEN SplitSpace(auth_header)[2]
    ELSE None

\* main.py lines 85-87: the agent's answer, or the exception it raises.
local_run_query(outcome) == outcome

\* The call of the agent without the except clause of lines 101-102: the
\* agent's exception leaves the endpoint.
LocalDispatchNoExcept(outcome) ==
    IF outcome.kind = "raise"
    THEN Propagated("AgentError")
    ELSE Response(200, [result |-> outcome.str], "none")

\* main.py lines 97-102: the call of the agent inside try/except, and
\* str(result) as the result field.
LocalDispatch(outcome) ==
    LET result == local_run_query(outcome)
    IN  IF result.kind = "raise"
        THEN Response(500, [error |-> result.text], "none")
        ELSE Response(200, [result |-> result.str], "none")

\* main.py lines 92-102: the endpoint.  request.get_json aborts with Flask's
\* own 400 on text that is no JSON; no body gives None.  A body with an
\* empty query has the key, and is passed to the agent (line 94 tests the
\* key only).
query_endpoint(body, outcome) ==
    IF body = "invalid"
    THEN Handling(Response(400, [framework |-> "Bad Request"], "none"),
                  <<"parse">>)
    ELSE IF body \in {"absent", "empty_object"}
    THEN Handling(Response(400, [error |-> "Missing query parameter"], "none"),
                  <<"parse">>)
    ELSE Handling(LocalDispatch(outcome), <<"parse", "query">>)

\* main.py lines 22-40: the decorator around the endpoint f.
token_required(auth_header, expected, f) ==
    LET token == LocalToken(auth_header)
    IN  IF ~Truthy(token)
        THEN Handling(Response(401, [error |-> "Unauthorized: Missing token"],
                               "none"), <<"auth_reject">>)
        ELSE IF token # expected
        THEN Handling(Response(401, [error |-> "Unauthorized: Invalid token"],
                               "none"), <<"auth_reject">>)
        ELSE Handling(f.resp, <<"auth_ok">> \o f.steps)

\* request.headers.get('Authorization'): Flask's lookup ignores case.
LocalHeader(req) ==
    IF req.Authorization # None THEN req.Authorization ELSE req.authorization

\* main.py lines 90-92: POST /query, the decorated endpoint.
LocalQueryRoute(req, outcome, expected) ==
    token_required(LocalHeader(req), expected, query_endpoint(req.body, outcome))

\* main.py lines 105-107.
health_check == Handling(Response(200, [status |-> "healthy"], "none"), <<>>)

\* -------------------------------------- Lambda handler (lambda_function.py)
\* The names lambda_function.py binds at module level: its imports (lines
\* 5-17), its assignments (lines 20-33 and 57-59) and its functions.
ModuleGlobals ==
    {"json", "logging", "os", "Dict", "Any", "Optional", "Union", "boto3",
     "chromadb", "VectorStoreIndex", "Settings", "QueryEngineTool",
     "ChromaVectorStore", "OpenAI", "OpenAIEmbedding", "ReActAgent",
     "logger", "ssm", "CHROMA_HOST", "CHROMA_PORT", "CHROMA_COLLECTION",
     "SSM_PARAM_API_KEY", "SSM_PARAM_AUTH_TOKEN", "EMBEDDING_MODEL",
     "LLM_MODEL", "get_api_key", "get_auth_token", "api_key", "auth_token",
     "agent", "initialize_agent", "run_query", "lambda_handler"}

\* Reading a global name that the module never bound raises NameError.
Bound(name) == name \in ModuleGlobals

\* The names lines 77-121 read, in the order they are read.
ConstructionNames ==
    <<"CHROMA_HOST", "CHROMA_PORT", "CHROMA_COLLECTION_NAME",
      "OPENAI_EMBEDDING_MODEL_NAME", "OPENAI_API_KEY", "OPENAI_MODEL_NAME",
      "VERBOSE">>

\* What can go wrong outside the process during one bootstrap: nothing, the
\* Parameter Store read of the API key, that of the auth token, or the
\* connection to ChromaDB.
Faults == {"none", "ssm_api_key", "ssm_auth_token", "chroma"}

\* The value the Parameter Store holds under SSM_PARAM_API_KEY.
ApiKeyValue == <<"s", "s">>

\* The module's globals api_key, auth_token, agent, and OPENAI_API_KEY in
\* os.environ.
Globals(ag, key, tok, env) ==
    [agent |-> ag, api_key |-> key, auth_token |-> tok, environ |-> env]

\* The outcome of a call of initialize_agent: the globals after it, the
\* exception it raised ("none": it returned) and its steps.
Bootstrap(st, exc, steps) == [st |-> st, exc |-> exc, steps |-> steps]

\* Lines 36-43: the API key, or the exception of the read.
get_api_key(fault) ==
    IF fault = "ssm_api_key" THEN None ELSE ApiKeyValue

\* Lines 46-53: the auth token, or the exception of the read (a parameter
\* that does not exist cannot be read).
get_auth_token(fault, stored) ==
    IF fault = "ssm_auth_token" THEN None ELSE stored

\* Lines 75-126: the construction inside try/except, which logs the
\* exception and raises it again: the agent it assigns, or the exception.
Construct(fault) ==
    IF fault = "chroma" THEN "ChromaError"
    ELSE IF \E i \in 1..Len(ConstructionNames) : ~Bound(ConstructionNames[i])
    THEN "NameError"
    ELSE "none"

\* initialize_agent with `agent` assigned before the construction is done: a
\* construction that raises leaves the global set.
initialize_agent_early_assign(st, fault, stored) ==
    IF st.agent # None
    THEN Bootstrap(st, "none", <<"bootstrap">>)
    ELSE LET key == get_api_key(fault)
             tok == get_auth_token(fault, stored)
             st0 == [st EXCEPT !.agent = Ready]
             st1 == [st0 EXCEPT !.api_key = key]
             st2 == [st1 EXCEPT !.auth_token = tok, !.environ = key]
             exc == Construct(fault)
             steps == <<"bootstrap", "construct">>
         IN  IF key = None THEN Bootstrap(st0, "SSMError", steps)
             ELSE IF tok = None THEN Bootstrap(st1, "SSMError", steps)
             ELSE Bootstrap(st2, exc, steps)

\* Lines 62-126.
initialize_agent(st, fault, stored) ==
    IF st.agent # None
    THEN Bootstrap(st, "none", <<"bootstrap">>)
    ELSE LET key == get_api_key(fault)
             tok == get_auth_token(fault, stored)
             st1 == [st EXCEPT !.api_key = key]
             st2 == [st1 EXCEPT !.auth_token = tok, !.environ = key]
             exc == Construct(fault)
             steps == <<"bootstrap", "construct">>
         IN  IF key = None THEN Bootstrap(st, "SSMError", steps)
             ELSE IF tok = None THEN Bootstrap(st1, "SSMError", steps)
             ELSE IF exc # "none" THEN Bootstrap(st2, exc, steps)
             ELSE Bootstrap([st2 EXCEPT !.agent = Ready], "none", steps)

\* Lines 129-159: the result dictionary of a query.
run_query(outcome) ==
    IF outcome.kind = "raise"
    THEN [error |-> outcome.text, status |-> "error"]
    ELSE IF outcome.kind = "object"
    THEN [result |-> outcome.text, status |-> "success"]
    ELSE [result |-> outcome.str, status |-> "success"]

\* Line 216: headers.get('Authorization') or headers.get('authorization').
LambdaHeader(req) ==
    IF Truthy(req.Authorization) THEN req.Authorization ELSE req.authorization

\* Lines 227-228: the pieces of the header and the token taken from them; a
\* header of spaces alone has no piece, and token_parts[0] raises.
ReceivedToken(auth_header) ==
    LET token_parts == SplitWhitespace(auth_header)
    IN  IF Len(token_parts) > 1 THEN token_parts[Len(token_parts)]
        ELSE IF Len(token_parts) = 1 THEN token_parts[1]
        ELSE None

\* Lines 238-279: the body is parsed and the query is run.
LambdaQuery(body, outcome) ==
    IF body = "invalid"
    THEN Handling(Response(400, [status |-> "error",
                                 message |-> "Invalid JSON in request body"],
                           "none"), <<"parse">>)
    ELSE IF body \in {"absent", "empty_object", "query_empty"}
    THEN Handling(Response(400, [status |-> "error",
                                 message |-> "Missing query parameter"],
                           "none"), <<"parse">>)
    ELSE LET result == run_query(outcome)
         IN  Handling(Response(IF result.status = "success" THEN 200 ELSE 500,
                               result, "origin"), <<"parse", "query">>)

\* Lines 193-236: the method and the token are checked; f is what lines
\* 238-279 do.  expected is the value of FUNCTION_API_TOKEN, were it bound.
LambdaGate(req, expected, f) ==
    LET auth_header == LambdaHeader(req)
    IN  IF req.method = "OPTIONS"
        THEN Handling(Response(200, [raw |-> ""], "preflight"), <<>>)
        ELSE IF req.method # "POST"
        THEN Handling(Response(405, [status |-> "error",
                                     message |-> "Method not allowed"],
                               "none"), <<>>)
        ELSE IF ~Truthy(auth_header)
        THEN Handling(Response(401, [status |-> "error",
                                     message |-> "Missing authentication token"],
                               "none"), <<"auth_reject">>)
        ELSE IF ReceivedToken(auth_header) = None
        THEN Handling(Propagated("IndexError"), <<>>)
        ELSE IF ~Bound("FUNCTION_API_TOKEN")
        THEN Handling(Propagated("NameError"), <<>>)
        ELSE IF ReceivedToken(auth_header) # expected
        THEN Handling(Response(403, [status |-> "error",
                                     message |-> "Invalid authentication token"],
                               "none"), <<"auth_reject">>)
        ELSE Handling(f.resp, <<"auth_ok">> \o f.steps)

\* Lines 162-279: the handler.  Its result: the response, the steps, and the
\* module's globals after it.
lambda_handler(req, st, fault, outcome, stored) ==
    LET init == initialize_agent(st, fault, stored)
        rest == LambdaGate(req, stored, LambdaQuery(req.body, outcome))
    IN  IF init.exc # "none"
        THEN [resp |-> Response(500, [status |-> "error",
                                      message |-> "Failed to initialize agent"],
                                "preflight"),
              steps |-> init.steps, st |-> init.st, initExc |-> init.exc]
        ELSE [resp |-> rest.resp, steps |-> init.steps \o rest.steps,
              st |-> init.st, initExc |-> "none"]

\* ---------------------------------------------------------- state machine
\* variant     which of the two front ends this process runs
\* secret      the configured token: FUNCTION_API_TOKEN in the environment
\*             of the server, the parameter SSM_PARAM_AUTH_TOKEN of the Lambda
\* phase       "importing" (module level code runs), "serving", "crashed"
\* API_TOKEN   main.py's global
\* agent, api_key, auth_token   the module's globals
\* environ     os.environ["OPENAI_API_KEY"]
\* served      requests handled so far
\* failedInits constructions of the agent that raised so far
\* pending     the request handled last and its response, until it is sent
Idle == [kind |-> "idle"]

Handled == pending.kind # "idle"

Init ==
    /\ variant \in {"local", "lambda"}
    /\ secret \in SecretValues
    /\ phase = "importing"
    /\ API_TOKEN = None
    /\ agent = None
    /\ api_key = None
    /\ auth_token = None
    /\ environ = None
    /\ served = 0
    /\ failedInits = 0
    /\ pending = Idle

\* main.py lines 13-82, run once when the module is imported: without
\* FUNCTION_API_TOKEN the import raises ValueError; the agent is built from
\* the ChromaDB collection and the OpenAI clients, and an exception of that
\* construction ends the process as well.
LocalImport ==
    /\ variant = "local"
    /\ phase = "importing"
    /\ \E built \in BOOLEAN :
          IF ~Truthy(secret)
          THEN phase' = "crashed" /\ UNCHANGED <<API_TOKEN, agent>>
          ELSE /\ API_TOKEN' = secret
               /\ agent' = IF built THEN Ready ELSE None
               /\ phase' = IF built THEN "serving" ELSE "crashed"
    /\ UNCHANGED <<variant, secret, api_key, auth_token, environ, served,
                   failedInits, pending>>

\* lambda_function.py lines 5-59, run once per execution context.
LambdaImport ==
    /\ variant = "lambda"
    /\ phase = "importing"
    /\ phase' = "serving"
    /\ UNCHANGED <<variant, secret, API_TOKEN, agent, api_key, auth_token,
                   environ, served, failedInits, pending>>

\* POST /query on the server.
LocalQuery ==
    /\ variant = "local"
    /\ phase = "serving"
    /\ pending = Idle
    /\ served < MaxRequests
    /\ \E req \in Requests :
          /\ req.method = "POST"
          /\ \E outcome \in OutcomesFor(
                    LocalQueryRoute(req, NoOutcome, API_TOKEN).steps) :
                LET h == LocalQueryRoute(req, outcome, API_TOKEN)
                IN  pending' = [kind |-> "query", req |-> req,
                                outcome |-> outcome,
                                resp |-> h.resp, steps |-> h.steps,
                                agentBefore |-> agent, initExc |-> "none"]
    /\ served' = served + 1
    /\ UNCHANGED <<variant, secret, phase, API_TOKEN, agent, api_key,
                   auth_token, environ, failedInits>>

\* GET /health on the server.
LocalHealth ==
    /\ variant = "local"
    /\ phase = "serving"
    /\ pending = Idle
    /\ served < MaxRequests
    /\ pending' = [kind |-> "health",
                   req |-> [method |-> "GET", Authorization |-> None,
                            authorization |-> None, body |-> "absent"],
                   outcome |-> NoOutcome,
                   resp |-> health_check.resp, steps |-> health_check.steps,
                   agentBefore |-> agent, initExc |-> "none"]
    /\ served' = served + 1
    /\ UNCHANGED <<variant, secret, phase, API_TOKEN, agent, api_key,
                   auth_token, environ, failedInits>>

\* One invocation of lambda_handler.
LambdaInvoke ==
    /\ variant = "lambda"
    /\ phase = "serving"
    /\ pending = Idle
    /\ served < MaxRequests
    /\ \E req \in Requests, fault \in Faults :
        \E outcome \in OutcomesFor(
              lambda_handler(req, Globals(agent, api_key, auth_token, environ),
                             fault, NoOutcome, secret).steps) :
          LET h == lambda_handler(req, Globals(agent, api_key, auth_token,
                                               environ),
                                  fault, outcome, secret)
          IN  /\ pending' = [kind |-> "invoke", req |-> req,
                             outcome |-> outcome,
                             resp |-> h.resp, steps |-> h.steps,
                             agentBefore |-> agent, initExc |-> h.initExc]
              /\ agent' = h.st.agent
              /\ api_key' = h.st.api_key
              /\ auth_token' = h.st.auth_token
              /\ environ' = h.st.environ
              /\ failedInits' = IF h.initExc # "none" THEN failedInits + 1
                                ELSE failedInits
    /\ served' = served + 1
    /\ UNCHANGED <<variant, secret, phase, API_TOKEN>>

\* The response is handed to the caller; the process waits for a request.
Reply ==
    /\ Handled
    /\ pending' = Idle
    /\ UNCHANGED <<variant, secret, phase, API_TOKEN, agent, api_key,
                   auth_token, environ, served, failedInits>>

Next ==
    \/ LocalImport
    \/ LambdaImport
    \/ LocalQuery
    \/ LocalHealth
    \/ LambdaInvoke
    \/ Reply

Spec == Init /\ [][Next]_vars

\* ------------------------------------------------------------ properties
\* The Authorization header the caller sent (None: no such header).
SentHeader == LocalHeader(pending.req)

\* A request to the query operation has been handled: POST /query on the
\* server, POST on the Lambda.
QueryHandled ==
    /\ Handled
    /\ pending.kind \in {"query", "invoke"}
    /\ pending.req.method = "POST"

\* Tokens: the non-empty strings without a space.
IsToken(t) == t # None /\ t # <<>> /\ \A i \in 1..Len(t) : t[i] # " "

\* The two header forms of a token t: "Bearer t" and the bare "t".
HeaderForms(t) == {<<"Bearer", " ">> \o t, t}

\* The response carries an error payload and no result.
ErrorPayload(resp) ==
    /\ resp.exc = "none"
    /\ \E f \in {"error", "message"} : f \in DOMAIN resp.body
    /\ "result" \notin DOMAIN resp.body

\* C1: a query request with no Authorization header, or an empty one, is
\* answered 401 with an error payload, and agent.query is not invoked while
\* it is handled.
C1_MissingCredentialIs401 ==
    (QueryHandled /\ ~Truthy(SentHeader))
        => /\ pending.resp.status = 401
           /\ ErrorPayload(pending.resp)
           /\ ~Queried(pending.steps)

\* C2: a query request whose header carries, in either form, a token other
\* than the configured secret is answered 403, and agent.query is not
\* invoked.
C2_WrongTokenIs403 ==
    (QueryHandled /\ Truthy(secret)
       /\ \E t \in Strings(MaxHeaderLen) :
             IsToken(t) /\ t # secret /\ SentHeader \in HeaderForms(t)
                        /\ SentHeader \notin HeaderForms(secret))
        => /\ pending.resp.status = 403
           /\ ~Queried(pending.steps)

\* C3: a query request whose header is "Bearer S" or the bare "S", S the
\* configured secret, passes the Auth Gate.
C3_BothFormsPass ==
    (QueryHandled /\ Truthy(secret) /\ SentHeader \in HeaderForms(secret))
        => \E i \in 1..Len(pending.steps) : pending.steps[i] = "auth_ok"

\* C4: a query request with the correct token and a non-empty query is
\* passed to the agent, and when the agent returns the text T the response
\* is 200 with result T and no error field.
C4_ResultVerbatim ==
    (QueryHandled /\ Truthy(secret) /\ SentHeader \in HeaderForms(secret)
       /\ pending.req.body = "query_text")
        => /\ Queried(pending.steps)
           /\ pending.outcome.kind \in {"string", "object"}
                 => /\ pending.resp.status = 200
                    /\ "result" \in DOMAIN pending.resp.body
                    /\ pending.resp.body.result = pending.outcome.text
                    /\ "error" \notin DOMAIN pending.resp.body

\* C5: a query request whose body has no `query` field is answered 400 with
\* the missing-query error, whatever its token.
C5_MissingQueryIs400 ==
    (QueryHandled /\ pending.req.body \in {"absent", "empty_object"})
        => /\ pending.resp.status = 400
           /\ ErrorPayload(pending.resp)

\* C6: when agent.query raises while a query request is handled, the handler
\* returns 500 with an error payload and no result; the exception does not
\* leave the handler.
C6_AgentErrorIs500 ==
    (QueryHandled /\ Queried(pending.steps) /\ pending.outcome.kind = "raise")
        => /\ pending.resp.exc = "none"
           /\ pending.resp.status = 500
           /\ ErrorPayload(pending.resp)

\* C6 witness: the server has handled an authenticated query that the agent
\* answered with an exception.
C6_Witness ==
    /\ QueryHandled
    /\ pending.kind = "query"
    /\ pending.req.body = "query_text"
    /\ pending.steps = <<"auth_ok", "parse", "query">>
    /\ pending.outcome.kind = "raise"
    /\ pending.resp.status = 500

\* C7: while a request is handled, the body is not parsed, the agent is not
\* bootstrapped and agent.query is not invoked before the credential has
\* been accepted.
C7_AuthGateFirst ==
    (Handled /\ pending.kind \in {"query", "invoke"})
        => \A i \in 1..Len(pending.steps) :
              pending.steps[i] \in {"bootstrap", "construct", "parse", "query"}
                 => \E j \in 1..(i - 1) : pending.steps[j] = "auth_ok"

\* C8: the Lambda answers every OPTIONS request with the preflight response:
\* 200, empty body, the permissive CORS headers.
C8_PreflightIs200 ==
    (Handled /\ pending.kind = "invoke" /\ pending.req.method = "OPTIONS")
        => /\ pending.resp.status = 200
           /\ pending.resp.body = [raw |-> ""]
           /\ pending.resp.cors = "preflight"

\* C9: agent.query is invoked only with the agent built; a construction
\* that raises leaves `agent` unset and its request is answered 500; and a
\* request that finds `agent` unset attempts the construction.
C9_NoHalfBuiltAgent ==
    Handled
        => /\ Queried(pending.steps) => agent = Ready
           /\ (pending.kind = "invoke" /\ pending.initExc # "none")
                 => /\ agent = None
                    /\ pending.resp.status = 500
                    /\ ~Queried(pending.steps)
           /\ (pending.kind = "invoke" /\ pending.agentBefore = None)
                 => \E i \in 1..Len(pending.steps) :
                       pending.steps[i] = "construct"

\* C9 witness: a second request in a row has attempted the construction
\* after the first one's failed, and has failed as well.
C9_Witness ==
    /\ Handled
    /\ pending.kind = "invoke"
    /\ failedInits >= 2
    /\ pending.agentBefore = None
    /\ pending.initExc # "none"
    /\ pending.steps = <<"bootstrap", "construct">>
    /\ pending.resp.status = 500
    /\ agent = None

====
